---- MODULE Spec2Model ----
(***************************************************************************)
(* empress-cli (src/cli.js): a command-line client that validates xAPI     *)
(* statements against a fixed JSON schema and performs one operation on a  *)
(* MongoDB collection per command.                                         *)
(*                                                                         *)
(* Each action below is one invocation of the program with one command:    *)
(* the handler registered for that command, with every call it makes.      *)
(* The collection lives in the data store and persists from one invocation *)
(* to the next; everything else describes the last invocation.             *)
(* A statement is a JSON object.  client.connect() and each operation on   *)
(* the collection may fail; the actions take both outcomes.                *)
(*                                                                         *)
(* A process checks its settings, starts the main menu and dispatches the  *)
(* command; an action that starts a process runs the callback of the       *)
(* command to its end.  A process that has not ended itself then waits at  *)
(* the menu, and the choices of its user are actions of their own.  The    *)
(* prompts are always answered: inquirer.prompt does not reject.  The      *)
(* command line always names a registered command.                         *)
(*                                                                         *)
(* Spec runs processes one after another from the empty collection;        *)
(* SpecProcess runs one process with any command from any collection of    *)
(* at most MaxDocs documents; SpecValidator runs the validator alone.      *)
(***************************************************************************)
EXTENDS Naturals, Sequences, FiniteSets

(***************************************************************************)
(* Bounds of the model.                                                    *)
(***************************************************************************)
\* Largest number of documents the collection holds in the model.
MaxDocs == 2
\* Largest number of entries of a JSON array given to a bulk command.
MaxBatch == 2

(***************************************************************************)
(* JSON values.  A statement is a JSON object; each field is abstracted to *)
(* what the schema can tell apart: absent, present with a value of another *)
(* type than the schema's, or present with a value of the schema's type.   *)
(* "authority" stands for the fields the schema does not mention.          *)
(***************************************************************************)
Presence == {"absent", "nonobject", "object"}
NameValues == {"absent", "nonstring", "John", "Ann"}
MboxValues == {"absent", "nonstring", "mailto:x"}
IdValues == {"absent", "nonstring", "http://verbs/completed"}
AuthorityValues == {"absent", "admin"}

Statements ==
    { s \in [actor : Presence, name : NameValues, mbox : MboxValues,
             verb : Presence, id : IdValues, display : Presence,
             object : Presence, authority : AuthorityValues] :
        /\ (s.actor # "object" => s.name = "absent" /\ s.mbox = "absent")
        /\ (s.verb # "object" => s.id = "absent" /\ s.display = "absent") }

\* The statement {} : the placeholder where a text holds no statement.
NoStatement ==
    [actor |-> "absent", name |-> "absent", mbox |-> "absent",
     verb |-> "absent", id |-> "absent", display |-> "absent",
     object |-> "absent", authority |-> "absent"]

(***************************************************************************)
(* The schema and the compiled validator (ajv).                            *)
(***************************************************************************)
\* xAPISchema.required, and the required lists of actor and verb.
\* A schema whose required list forgets object.
RequiredTopWithoutObject == <<"actor", "verb">>
RequiredTop == <<"actor", "verb", "object">>
RequiredActor == <<"name", "mbox">>
RequiredVerb == <<"id", "display">>

\* new Ajv() is constructed without options: allErrors is off.
AjvAllErrors == FALSE

ErrRequired(path, field) ==
    [keyword |-> "required", path |-> path, missing |-> field]
ErrType(path) ==
    [keyword |-> "type", path |-> path, missing |-> "none"]

\* The "required" keyword of one object: one error per missing property.
MissingOf(s, path, required) ==
    LET absentAt(i) == s[required[i]] = "absent"
        idx == SelectSeq([i \in 1..Len(required) |-> i], absentAt)
    IN [k \in 1..Len(idx) |-> ErrRequired(path, required[idx[k]])]

\* type: "string" / type: "object" of one present property.
TypeOf(s, path, field, wrong) ==
    IF s[field] = wrong THEN <<ErrType(path)>> ELSE <<>>

\* Schema of actor: type object, then required, then the properties.
ActorViolations(s) ==
    CASE s.actor = "absent" -> <<>>
      [] s.actor = "nonobject" -> <<ErrType(".actor")>>
      [] OTHER -> MissingOf(s, ".actor", RequiredActor)
                  \o TypeOf(s, ".actor.name", "name", "nonstring")
                  \o TypeOf(s, ".actor.mbox", "mbox", "nonstring")

\* A schema that types verb.display as a string.
VerbViolationsDisplayString(s) ==
    CASE s.verb = "absent" -> <<>>
      [] s.verb = "nonobject" -> <<ErrType(".verb")>>
      [] OTHER -> MissingOf(s, ".verb", RequiredVerb)
                  \o TypeOf(s, ".verb.id", "id", "nonstring")
                  \o TypeOf(s, ".verb.display", "display", "object")

\* Schema of verb: type object, then required, then the properties.
VerbViolations(s) ==
    CASE s.verb = "absent" -> <<>>
      [] s.verb = "nonobject" -> <<ErrType(".verb")>>
      [] OTHER -> MissingOf(s, ".verb", RequiredVerb)
                  \o TypeOf(s, ".verb.id", "id", "nonstring")
                  \o TypeOf(s, ".verb.display", "display", "nonobject")

\* Every constraint of xAPISchema the statement violates, in the order the
\* compiled validator meets them: required of the root, then each property.
Violations(s) ==
    MissingOf(s, "", RequiredTop)
    \o ActorViolations(s)
    \o VerbViolations(s)
    \o TypeOf(s, ".object", "object", "nonobject")

\* validate.errors after validate(s): without allErrors the compiled
\* validator returns at the first violation it meets.
validateErrors(s) ==
    LET v == Violations(s)
    IN IF AjvAllErrors \/ v = <<>> THEN v ELSE <<Head(v)>>

\* validate(s): the boolean the compiled validator returns.
validate(s) == validateErrors(s) = <<>>

\* validateStatement(data)
validateStatement(s) ==
    IF validate(s)
    THEN [valid |-> TRUE, errors |-> <<>>]
    ELSE [valid |-> FALSE, errors |-> validateErrors(s)]

(***************************************************************************)
(* Command-line texts.  A JSON argument is malformed, an object (a         *)
(* statement) or an array of statements; JSON.parse throws on the first    *)
(* and returns the value of the others.                                    *)
(***************************************************************************)
MalformedText == [kind |-> "malformed", st |-> NoStatement, items |-> <<>>]
ObjectText(s) == [kind |-> "object", st |-> s, items |-> <<>>]
ArrayText(l) == [kind |-> "array", st |-> NoStatement, items |-> l]

\* JSON.parse(text) throws a SyntaxError.
JSONParseThrows(t) == t.kind = "malformed"

Valid(name) ==
    [actor |-> "object", name |-> name, mbox |-> "mailto:x",
     verb |-> "object", id |-> "http://verbs/completed", display |-> "object",
     object |-> "object", authority |-> "absent"]

\* The statements the commands are run with: two valid ones, the spec's
\* {"actor":{"name":"John"}}, one without object, one whose object is a
\* string, and the README's {"actor":"John","verb":"completed","object":"Course"}.
SampleStatements ==
    { Valid("John"), Valid("Ann"),
      [NoStatement EXCEPT !.actor = "object", !.name = "John"],
      [Valid("John") EXCEPT !.object = "absent"],
      [Valid("Ann") EXCEPT !.object = "nonobject"],
      [NoStatement EXCEPT !.actor = "nonobject", !.verb = "nonobject",
                          !.object = "nonobject"] }

\* The entries of the arrays given to the bulk commands.
BatchEntries ==
    { Valid("John"), Valid("Ann"),
      [NoStatement EXCEPT !.actor = "object", !.name = "John"] }

SeqsUpTo(S, n) == UNION { [1..k -> S] : k \in 0..n }

StatementTexts == {MalformedText} \cup { ObjectText(s) : s \in SampleStatements }
AllStatementTexts == {MalformedText} \cup { ObjectText(s) : s \in Statements }
BatchTexts ==
    {MalformedText, ObjectText(Valid("John"))}
    \cup { ArrayText(l) : l \in SeqsUpTo(BatchEntries, MaxBatch) }

\* The contents of the file a path argument names: malformed, not an array,
\* an empty array, valid entries only, a mix, invalid entries only.
FileTexts ==
    { MalformedText, ObjectText(Valid("John")), ArrayText(<<>>),
      ArrayText(<<Valid("John"), Valid("Ann")>>),
      ArrayText(<<[NoStatement EXCEPT !.actor = "object", !.name = "John"],
                  Valid("Ann")>>),
      ArrayText(<<[NoStatement EXCEPT !.actor = "object", !.name = "John"]>>) }

FilterAll == "{}"
FilterJohn == "{\"actor.name\":\"John\"}"
FilterMalformed == "{"
FilterTexts == {FilterMalformed, FilterAll, FilterJohn}
Formats == {"json", "csv"}

\* Answers to a confirm prompt: y, n, or enter with no input.
Answers == {"y", "n", "enter"}

\* No JSON argument, and the input of a command that takes none.
NoText == [kind |-> "none", st |-> NoStatement, items |-> <<>>]
\* The answers to the four questions of interactiveMode.
NoPrompt == [actorName |-> "", actorMbox |-> "", verbId |-> ""]
PromptAnswers ==
    [actorName : {"Ann"}, actorMbox : {"mailto:x"},
     verbId : {"http://verbs/completed"}]
\* A statement id argument: whether ObjectId accepts it, and the _id it
\* then denotes.
NoId == [ok |-> FALSE, id |-> 0]
StatementIds == {NoId} \cup { [ok |-> TRUE, id |-> i] : i \in 1..(MaxDocs + 1) }
\* An authority argument.
AuthorityArgs == AuthorityValues \ {"absent"}
NoInput ==
    [text |-> NoText, filter |-> "", format |-> "", answers |-> <<>>,
     prompt |-> NoPrompt, id |-> NoId, authority |-> ""]

(***************************************************************************)
(* The environment the process is started in (after dotenv has loaded the  *)
(* .env file): the set of the variables that have a non-empty value.       *)
(***************************************************************************)
\* The variables cli.js reads.
RequiredSettings == {"MONGO_URI", "DB_NAME", "COLLECTION_NAME"}
\* The variables README.md tells the user to put in the .env file.
ReadmeSettings == {"MONGO_URI", "MONGO_DB_NAME", "MONGO_COLLECTION_NAME"}
Environments == (SUBSET RequiredSettings) \cup {ReadmeSettings}

\* A check of the connection string alone.
ConfigMissingUriOnly(env) == "MONGO_URI" \notin env

\* !uri || !dbName || !collectionName
ConfigMissing(env) ==
    \/ "MONGO_URI" \notin env
    \/ "DB_NAME" \notin env
    \/ "COLLECTION_NAME" \notin env

\* The choices of the main menu, in the order they are listed.
MenuChoices ==
    << "Interactively generate an xAPI statement",
       "Generate an xAPI statement template",
       "Search for statements by content",
       "List all object types in the LRS",
       "Visualize the progress of an actor",
       "Set the authority for an xAPI statement",
       "Get the most active actors",
       "Visualize verb usage",
       "List all extensions",
       "Get statements by duration",
       "Exit" >>

\* How often one process displays the main menu at most.
MaxMenus == 2

(***************************************************************************)
(* State.                                                                  *)
(***************************************************************************)
VARIABLES
    collection,  \* the documents of the configured collection, oldest first
    exported,    \* the file exported_statements.json
    purged,      \* history: the last write to the collection was a delete-all
                 \* (since), which deleted that many documents (deleted)
    cmd,         \* the command of the last invocation
    input,       \* its arguments, file content and prompt answers
    connected,   \* client.isConnected() when the handler is left
    calls,       \* the client operations the handler called, in order
    log,         \* what the handler logged through winston
    stdout,      \* what the handler printed with console.log
    outcome,     \* how the handler was left: returned, escaped, exit1
    verdict,     \* the value validateStatement returned
    errors,      \* validate.errors
    env,         \* the environment of the last invocation
    exit,        \* the process: none yet, alive, or its exit code 0 or 1
    menu,        \* the main menu of the process: how often it was displayed
                 \* (shown) and the statement it printed last (generated)
    targets      \* the collections the handler called an operation on

vars == <<collection, exported, purged, cmd, input, connected, calls, log,
          stdout, outcome, verdict, errors, env, exit, menu, targets>>

NoVerdict == [valid |-> FALSE, errors |-> <<>>]
NoFile == [exists |-> FALSE, items |-> <<>>]
NoMenu == [shown |-> 0, generated |-> NoStatement]

Init ==
    /\ collection = <<>>
    /\ exported = NoFile
    /\ purged = [since |-> FALSE, deleted |-> 0]
    /\ cmd = "none"
    /\ input = NoInput
    /\ connected = FALSE
    /\ calls = <<>>
    /\ log = <<>>
    /\ stdout = <<>>
    /\ outcome = "none"
    /\ verdict = NoVerdict
    /\ errors = <<>>
    /\ env = RequiredSettings
    /\ exit = "none"
    /\ menu = NoMenu
    /\ targets = {}

(***************************************************************************)
(* The data store: the operations of the driver on the collection.         *)
(***************************************************************************)
Max(S) == IF S = {} THEN 0 ELSE CHOOSE m \in S : \A x \in S : x <= m

\* A fresh _id.
FreshId(coll) == Max({ coll[i].id : i \in 1..Len(coll) }) + 1

\* collection.insertOne(data)
insertOne(coll, s) == Append(coll, [id |-> FreshId(coll), st |-> s])

RECURSIVE insertMany(_, _)
\* collection.insertMany(validData)
insertMany(coll, l) ==
    IF l = <<>> THEN coll ELSE insertMany(insertOne(coll, Head(l)), Tail(l))

\* A delete that removes one document only.
deleteFirst(coll) == IF coll = <<>> THEN coll ELSE Tail(coll)

\* collection.deleteMany({})
deleteMany(coll) == <<>>

\* collection.countDocuments()
countDocuments(coll) == Len(coll)

Matches(d, filter) == filter = FilterJohn => d.st.name = "John"

\* collection.find(JSON.parse(filter)).toArray()
find(coll, filter) ==
    LET keep(d) == Matches(d, filter) IN SelectSeq(coll, keep)

\* collection.distinct("verb.id")
distinct(coll) == { coll[i].st.id : i \in 1..Len(coll) }

\* An update that sets the authority of every document.
updateOneEvery(coll, id, authority) ==
    [i \in 1..Len(coll) |-> [coll[i] EXCEPT !.st.authority = authority]]

\* collection.updateOne({ _id: id }, { $set: { authority: authority } }):
\* the first document with that _id gets the authority; none, nothing.
updateOne(coll, id, authority) ==
    LET hits == { i \in 1..Len(coll) : coll[i].id = id }
    IN IF hits = {} THEN coll
       ELSE LET first == CHOOSE i \in hits : \A j \in hits : i <= j
            IN [coll EXCEPT ![first].st.authority = authority]

\* The statements a collection can hold: those of the inputs that pass
\* validation, as they are or with an authority set.
StoredStatements ==
    LET storable == { s \in SampleStatements \cup BatchEntries : validate(s) }
    IN storable \cup { [s EXCEPT !.authority = a] :
                         s \in storable, a \in AuthorityArgs }

\* The collections of at most MaxDocs documents.
Collections ==
    { [i \in 1..Len(l) |-> [id |-> i, st |-> l[i]]] :
        l \in SeqsUpTo(StoredStatements, MaxDocs) }

\* data.filter((entry) => validate(entry))
FilterValid(l) == SelectSeq(l, validate)

(***************************************************************************)
(* What a handler leaves behind.                                           *)
(***************************************************************************)
Log(level, msg, cause, errs) ==
    [level |-> level, msg |-> msg, cause |-> cause, errs |-> errs, n |-> 0]
\* logger.info(`${n} records inserted successfully`)
LogInserted(k) ==
    [level |-> "info", msg |-> "records inserted successfully",
     cause |-> "none", errs |-> <<>>, n |-> k]
Out(msg, n) == [msg |-> msg, n |-> n]

\* The collection process.env.COLLECTION_NAME names.
collectionName == "COLLECTION_NAME"

\* on: the collection the handler takes from client.db(dbName).
Effect(coll, conn, cl, lg, out, oc, errs) ==
    [coll |-> coll, conn |-> conn, calls |-> cl, log |-> lg, out |-> out,
     oc |-> oc, errs |-> errs, on |-> collectionName]

\* connect(): client.connect() throws; the error is logged and the process
\* exits with code 1.
ConnectFailed ==
    Effect(collection, FALSE, <<"connect">>,
           <<Log("error", "Could not connect to MongoDB:", "MongoError", <<>>)>>,
           <<>>, "exit1", <<>>)

(***************************************************************************)
(* The handler functions.  connOk: client.connect() succeeds; opOk: the    *)
(* operation on the collection succeeds (else the driver throws).          *)
(***************************************************************************)
MongoFailure(msg) == <<Log("error", msg, "MongoError", <<>>)>>

\* createRecord without the validation gate.
createRecordUngated(s, connOk, opOk) ==
    IF ~connOk THEN ConnectFailed
    ELSE IF ~opOk
    THEN Effect(collection, TRUE, <<"connect", "insertOne">>,
                MongoFailure("Error while creating record:"),
                <<>>, "returned", validateErrors(s))
    ELSE Effect(insertOne(collection, s), TRUE, <<"connect", "insertOne">>,
                <<Log("info", "Record created successfully", "none", <<>>)>>,
                <<>>, "returned", validateErrors(s))

\* createRecord(data): no finally, the connection stays open.
createRecord(s, connOk, opOk) ==
    IF ~connOk THEN ConnectFailed
    ELSE IF ~validate(s)
    THEN Effect(collection, TRUE, <<"connect">>,
                <<Log("error", "Error while creating record:",
                      "Validation failed", validateErrors(s))>>,
                <<>>, "returned", validateErrors(s))
    ELSE IF ~opOk
    THEN Effect(collection, TRUE, <<"connect", "insertOne">>,
                MongoFailure("Error while creating record:"),
                <<>>, "returned", <<>>)
    ELSE Effect(insertOne(collection, s), TRUE, <<"connect", "insertOne">>,
                <<Log("info", "Record created successfully", "none", <<>>)>>,
                <<>>, "returned", <<>>)

\* queryRecords(filter): JSON.parse runs inside the try, after connect();
\* no finally, the connection stays open.
queryRecords(filter, connOk, opOk) ==
    IF ~connOk THEN ConnectFailed
    ELSE IF filter = FilterMalformed
    THEN Effect(collection, TRUE, <<"connect">>,
                <<Log("error", "Error while querying records:", "SyntaxError", <<>>)>>,
                <<>>, "returned", <<>>)
    ELSE IF ~opOk
    THEN Effect(collection, TRUE, <<"connect", "find">>,
                MongoFailure("Error while querying records:"),
                <<>>, "returned", <<>>)
    ELSE Effect(collection, TRUE, <<"connect", "find">>, <<>>,
                <<Out("results", Len(find(collection, filter)))>>,
                "returned", <<>>)

\* validate.errors after data.filter(validate): those of the last entry.
ErrorsAfterFilter(l) == IF l = <<>> THEN <<>> ELSE validateErrors(l[Len(l)])

\* bulkStoreStatements(data): an object has no filter method (TypeError);
\* the valid entries are inserted with one insertMany; finally closes.
bulkStoreStatements(t, connOk, opOk) ==
    LET msg == "Error during bulk store:"
        validData == FilterValid(t.items)
    IN IF ~connOk THEN ConnectFailed
       ELSE IF t.kind # "array"
       THEN Effect(collection, FALSE, <<"connect", "close">>,
                   <<Log("error", msg, "TypeError", <<>>)>>,
                   <<>>, "returned", <<>>)
       ELSE IF validData = <<>>
       THEN Effect(collection, FALSE, <<"connect", "close">>,
                   <<Log("error", msg, "No valid records found", <<>>)>>,
                   <<>>, "returned", ErrorsAfterFilter(t.items))
       ELSE IF ~opOk
       THEN Effect(collection, FALSE, <<"connect", "insertMany", "close">>,
                   MongoFailure(msg), <<>>, "returned",
                   ErrorsAfterFilter(t.items))
       ELSE Effect(insertMany(collection, validData), FALSE,
                   <<"connect", "insertMany", "close">>,
                   <<LogInserted(Len(validData))>>,
                   <<>>, "returned", ErrorsAfterFilter(t.items))

\* The identifier fs is bound nowhere in cli.js (no require("fs")):
\* evaluating fs.readFileSync or fs.writeFileSync throws a ReferenceError.
FsReferenceError(msg) == <<Log("error", msg, "ReferenceError", <<>>)>>

\* exportStatements(filter, format): connect, find, then fs.writeFileSync,
\* which throws before anything is written; finally closes.
exportStatements(filter, format, connOk, opOk) ==
    LET msg == "Error during export:"
    IN IF ~connOk THEN ConnectFailed
       ELSE IF filter = FilterMalformed
       THEN Effect(collection, FALSE, <<"connect", "close">>,
                   <<Log("error", msg, "SyntaxError", <<>>)>>,
                   <<>>, "returned", <<>>)
       ELSE IF ~opOk
       THEN Effect(collection, FALSE, <<"connect", "find", "close">>,
                   MongoFailure(msg), <<>>, "returned", <<>>)
       ELSE Effect(collection, FALSE, <<"connect", "find", "close">>,
                   FsReferenceError(msg), <<>>, "returned", <<>>)

\* importStatements(filePath): fs.readFileSync throws inside the try, before
\* JSON.parse and bulkStoreStatements.
importStatements ==
    Effect(collection, FALSE, <<>>, FsReferenceError("Error during import:"),
           <<>>, "returned", <<>>)

\* getLRSStats(): prints the count; finally closes.
getLRSStats(connOk, opOk) ==
    IF ~connOk THEN ConnectFailed
    ELSE IF ~opOk
    THEN Effect(collection, FALSE, <<"connect", "countDocuments", "close">>,
                MongoFailure("Error retrieving LRS stats:"),
                <<>>, "returned", <<>>)
    ELSE Effect(collection, FALSE, <<"connect", "countDocuments", "close">>,
                <<>>,
                <<Out("Total statements in LRS:", countDocuments(collection))>>,
                "returned", <<>>)

\* listAllVerbs(): prints the distinct verb ids; finally closes.
listAllVerbs(connOk, opOk) ==
    IF ~connOk THEN ConnectFailed
    ELSE IF ~opOk
    THEN Effect(collection, FALSE, <<"connect", "distinct", "close">>,
                MongoFailure("Error fetching unique verbs:"),
                <<>>, "returned", <<>>)
    ELSE Effect(collection, FALSE, <<"connect", "distinct", "close">>,
                <<>>, <<Out("verbs", Cardinality(distinct(collection)))>>,
                "returned", <<>>)

\* The value of a confirm prompt: y is true, n is false, enter is the
\* prompt's default.
Confirmed(answer, default) ==
    CASE answer = "y" -> TRUE
      [] answer = "n" -> FALSE
      [] OTHER -> default

\* The prompt of the reset-db command is given default: false.
ResetCommandDefault == FALSE
\* The prompt of resetDatabase is given no default: inquirer's confirm
\* prompt then defaults to true.
ResetDatabaseDefault == TRUE

\* resetDatabase(): its own confirm prompt, then deleteMany({}); finally
\* client.close(), also when nothing was connected.
resetDatabase(answer, connOk, opOk) ==
    IF ~Confirmed(answer, ResetDatabaseDefault)
    THEN Effect(collection, FALSE, <<"close">>, <<>>,
                <<Out("Database reset cancelled.", 0)>>, "returned", <<>>)
    ELSE IF ~connOk THEN ConnectFailed
    ELSE IF ~opOk
    THEN Effect(collection, FALSE, <<"connect", "deleteMany", "close">>,
                MongoFailure("Error during database reset:"),
                <<>>, "returned", <<>>)
    ELSE Effect(deleteMany(collection), FALSE,
                <<"connect", "deleteMany", "close">>, <<>>,
                <<Out("Deleted records.", Len(collection))>>,
                "returned", <<>>)

\* setStatementAuthority with a check of the number of matched documents.
setStatementAuthorityChecked(sid, authority, connOk, opOk) ==
    LET msg == "Error setting statement authority:"
    IN IF ~connOk THEN ConnectFailed
       ELSE IF ~sid.ok
       THEN Effect(collection, FALSE, <<"connect", "close">>,
                   <<Log("error", msg, "Error", <<>>)>>, <<>>, "returned", <<>>)
       ELSE IF ~opOk
       THEN Effect(collection, FALSE, <<"connect", "updateOne", "close">>,
                   MongoFailure(msg), <<>>, "returned", <<>>)
       ELSE IF \A i \in 1..Len(collection) : collection[i].id # sid.id
       THEN Effect(collection, FALSE, <<"connect", "updateOne", "close">>,
                   <<Log("error", msg, "Error", <<>>)>>, <<>>, "returned", <<>>)
       ELSE Effect(updateOne(collection, sid.id, authority), FALSE,
                   <<"connect", "updateOne", "close">>, <<>>, <<>>,
                   "returned", <<>>)

\* setStatementAuthority(statementId, authority): ObjectId(statementId)
\* throws for an id that is not well-formed, before updateOne is called; the
\* result of updateOne is not looked at; finally closes.
setStatementAuthority(sid, authority, connOk, opOk) ==
    LET msg == "Error setting statement authority:"
    IN IF ~connOk THEN ConnectFailed
       ELSE IF ~sid.ok
       THEN Effect(collection, FALSE, <<"connect", "close">>,
                   <<Log("error", msg, "Error", <<>>)>>, <<>>, "returned", <<>>)
       ELSE IF ~opOk
       THEN Effect(collection, FALSE, <<"connect", "updateOne", "close">>,
                   MongoFailure(msg), <<>>, "returned", <<>>)
       ELSE Effect(updateOne(collection, sid.id, authority), FALSE,
                   <<"connect", "updateOne", "close">>, <<>>, <<>>,
                   "returned", <<>>)

\* A registration of the verb in the configured collection.
registerNewVerbConfigured(connOk, opOk) ==
    IF ~connOk THEN ConnectFailed
    ELSE IF ~opOk
    THEN Effect(collection, FALSE, <<"connect", "insertOne", "close">>,
                MongoFailure("Error during verb registration:"),
                <<>>, "returned", <<>>)
    ELSE Effect(collection, FALSE, <<"connect", "insertOne", "close">>,
                <<Log("info", "Registered new verb:", "none", <<>>)>>,
                <<>>, "returned", <<>>)

\* registerNewVerb(verb, definition): inserts into the collection "verbs",
\* whose documents are not part of the state; finally closes.
registerNewVerb(connOk, opOk) ==
    IF ~connOk THEN ConnectFailed
    ELSE IF ~opOk
    THEN [Effect(collection, FALSE, <<"connect", "insertOne", "close">>,
                 MongoFailure("Error during verb registration:"),
                 <<>>, "returned", <<>>) EXCEPT !.on = "verbs"]
    ELSE [Effect(collection, FALSE, <<"connect", "insertOne", "close">>,
                 <<Log("info", "Registered new verb:", "none", <<>>)>>,
                 <<>>, "returned", <<>>) EXCEPT !.on = "verbs"]

\* registerNewActivityType(type, definition): inserts into the collection
\* "activityTypes"; finally closes.
registerNewActivityType(connOk, opOk) ==
    IF ~connOk THEN ConnectFailed
    ELSE IF ~opOk
    THEN [Effect(collection, FALSE, <<"connect", "insertOne", "close">>,
                 MongoFailure("Error during activity type registration:"),
                 <<>>, "returned", <<>>) EXCEPT !.on = "activityTypes"]
    ELSE [Effect(collection, FALSE, <<"connect", "insertOne", "close">>,
                 <<Log("info", "Registered new activity type:", "none", <<>>)>>,
                 <<>>, "returned", <<>>) EXCEPT !.on = "activityTypes"]

\* The handlers that read the configured collection with one call, print or
\* return what they read and close in finally: the command, the function,
\* the operation it calls and the message it logs when the call throws.
ReadHandlers ==
    { [cmd |-> "listActors", fn |-> "listAllActors", op |-> "distinct",
       msg |-> "Error fetching unique actors:"],
      [cmd |-> "aggregate", fn |-> "aggregateStatements", op |-> "aggregate",
       msg |-> "Error during aggregation:"],
      [cmd |-> "groupByDate", fn |-> "groupStatementsByDate", op |-> "aggregate",
       msg |-> "Error grouping statements by date:"],
      [cmd |-> "analyzeActivity", fn |-> "analyzeActivityInteractions",
       op |-> "find", msg |-> "Error analyzing activity interactions:"],
      [cmd |-> "avgScoreByActivity", fn |-> "getAverageScoreByActivity",
       op |-> "aggregate", msg |-> "Error getting average score:"],
      [cmd |-> "search-statements", fn |-> "searchStatementsByContent",
       op |-> "find", msg |-> "Error during full-text search:"],
      [cmd |-> "list-object-types", fn |-> "listAllObjectTypes",
       op |-> "distinct", msg |-> "Error fetching object types:"],
      [cmd |-> "visualize-actor-progress", fn |-> "visualizeActorProgress",
       op |-> "find", msg |-> "Error visualizing actor progress:"],
      [cmd |-> "most-active-actors", fn |-> "getMostActiveActors",
       op |-> "aggregate", msg |-> "Error fetching most active actors:"],
      [cmd |-> "visualize-verb-usage", fn |-> "visualizeVerbUsage",
       op |-> "aggregate", msg |-> "Error visualizing verb usage:"],
      [cmd |-> "list-all-extensions", fn |-> "listAllExtensions",
       op |-> "distinct", msg |-> "Error listing all extensions:"],
      [cmd |-> "get-statements-by-duration", fn |-> "getStatementsByDuration",
       op |-> "find", msg |-> "Error retrieving statements by duration:"] }

\* One of these handlers; opOk is false also when what follows the call in
\* the try throws (averageScore[0] of an empty result).
readHandler(h, connOk, opOk) ==
    IF ~connOk THEN ConnectFailed
    ELSE IF ~opOk
    THEN Effect(collection, FALSE, <<"connect", h.op, "close">>,
                MongoFailure(h.msg), <<>>, "returned", <<>>)
    ELSE Effect(collection, FALSE, <<"connect", h.op, "close">>,
                <<>>, <<>>, "returned", <<>>)

\* checkDatabaseHealth(), the second function of that name: the statistics
\* of the database, not of a collection; finally closes.
checkDatabaseHealth(large, connOk, opOk) ==
    IF ~connOk THEN ConnectFailed
    ELSE IF ~opOk
    THEN Effect(collection, FALSE, <<"connect", "stats", "close">>,
                MongoFailure("Error during health check:"),
                <<>>, "returned", <<>>)
    ELSE Effect(collection, FALSE, <<"connect", "stats", "close">>,
                IF large
                THEN <<Log("warn", "Database size exceeds recommended limit!",
                           "none", <<>>)>>
                ELSE <<Log("info", "Database health is good.", "none", <<>>)>>,
                <<>>, "returned", <<>>)

\* backupDatabase(destinationPath): exec of mongodump, which reads the
\* database; its callback logs the failure or prints the success.
backupDatabase(toolOk) ==
    Effect(collection, FALSE, <<"exec">>,
           IF toolOk THEN <<>>
           ELSE <<Log("error", "Error during database backup:", "Error", <<>>)>>,
           IF toolOk THEN <<Out("Database backed up successfully to", 0)>>
           ELSE <<>>,
           "returned", <<>>)

\* restoreDatabaseFromBackup(backupPath): exec of mongorestore, which inserts
\* the documents of the dump whose _id the collection does not hold and
\* leaves the documents it holds as they are.
restoreDatabaseFromBackup(dump, toolOk) ==
    LET held == { collection[i].id : i \in 1..Len(collection) }
        new(d) == d.id \notin held
    IN Effect(IF toolOk THEN collection \o SelectSeq(dump, new) ELSE collection,
              FALSE, <<"exec">>,
              IF toolOk THEN <<>>
              ELSE <<Log("error", "Error during database restore:", "Error", <<>>)>>,
              IF toolOk
              THEN <<Out("Database restored successfully from backup.", 0)>>
              ELSE <<>>,
              "returned", <<>>)

\* A handler that is left before it calls anything.
Nothing(lg, out, oc) == Effect(collection, FALSE, <<>>, lg, out, oc, <<>>)

(***************************************************************************)
(* The commands: one action per program.command(...).action(...).          *)
(***************************************************************************)
\* The operations of a collection of the driver.
CollectionOps ==
    {"insertOne", "insertMany", "find", "aggregate", "distinct",
     "countDocuments", "updateOne", "deleteMany"}

HasCall(cl, op) == \E i \in 1..Len(cl) : cl[i] = op
CountCalls(cl, op) == Cardinality({ i \in 1..Len(cl) : cl[i] = op })

\* What the action callback prints after the handler function returned.
WithOut(e, out) == IF e.oc = "returned" THEN [e EXCEPT !.out = @ \o out] ELSE e

\* An uncaught exception in an async action callback: the promise is
\* rejected and nothing handles it.
Escaped == Nothing(<<>>, <<>>, "escaped")

\* No process is running: the shell can start the next one.
Idle == exit # "alive"

\* A process that nothing ends but the Exit choice of the menu.
ExitsOfNever(oc) == {"alive"}

\* The process when the action callback is left: process.exit(1) in connect()
\* has ended it; an unhandled rejection ends it with code 1 on Node 15 and
\* later and is only warned about on Node 14; otherwise it stays alive, the
\* prompt of the main menu waiting for input.
ExitsOf(oc) ==
    CASE oc = "exit1" -> {"1"}
      [] oc = "escaped" -> {"1", "alive"}
      [] OTHER -> {"alive"}

\* The process is started without a setting it requires: the error is logged
\* and process.exit(1) ends it before mainMenu() and program.parse are
\* reached.
StartWithoutConfig(v) ==
    /\ Idle
    /\ ConfigMissing(v)
    /\ env' = v
    /\ exit' = "1"
    /\ log' = <<Log("error",
                    "Environment variables MONGO_URI, DB_NAME, or COLLECTION_NAME are not set",
                    "none", <<>>)>>
    /\ cmd' = "none"
    /\ input' = NoInput
    /\ connected' = FALSE
    /\ calls' = <<>>
    /\ stdout' = <<>>
    /\ outcome' = "none"
    /\ errors' = <<>>
    /\ verdict' = NoVerdict
    /\ menu' = NoMenu
    /\ targets' = {}
    /\ UNCHANGED <<collection, exported, purged>>

\* The state an invocation of command c with input in leaves behind: the
\* settings are there, mainMenu() has displayed the menu, program.parse has
\* dispatched to the action callback of c and the callback was left.
Invocation(c, in, e, vd) ==
    /\ Idle
    /\ env' \in { v \in Environments : ~ConfigMissing(v) }
    /\ exit' \in ExitsOf(e.oc)
    /\ menu' = [NoMenu EXCEPT !.shown = 1]
    /\ targets' = IF \E i \in 1..Len(e.calls) : e.calls[i] \in CollectionOps
                  THEN {e.on}
                  ELSE {}
    /\ Len(e.coll) <= MaxDocs
    /\ cmd' = c
    /\ input' = in
    /\ collection' = e.coll
    /\ connected' = e.conn
    /\ calls' = e.calls
    /\ log' = e.log
    /\ stdout' = e.out
    /\ outcome' = e.oc
    /\ errors' = e.errs
    /\ verdict' = vd
    /\ purged' = IF HasCall(e.calls, "deleteMany") /\ e.log = <<>>
                 THEN [since |-> TRUE, deleted |-> Len(collection)]
                 ELSE IF e.coll # collection
                 THEN [since |-> FALSE, deleted |-> 0]
                 ELSE purged
    /\ UNCHANGED exported

\* create <data>
CmdCreate(t, connOk, opOk) ==
    Invocation("create", [NoInput EXCEPT !.text = t],
        IF JSONParseThrows(t)
        THEN Nothing(<<Log("error", "Error during record creation:",
                           "SyntaxError", <<>>)>>, <<>>, "returned")
        ELSE createRecord(t.st, connOk, opOk),
        NoVerdict)

\* query <parameters>
CmdQuery(f, connOk, opOk) ==
    Invocation("query", [NoInput EXCEPT !.filter = f],
        queryRecords(f, connOk, opOk), NoVerdict)

\* bulkImport <filepath>: t is the content of the file; fs.readFileSync
\* throws inside the try, so bulkInsert is never called.
CmdBulkImport(t) ==
    Invocation("bulkImport", [NoInput EXCEPT !.text = t],
        Nothing(FsReferenceError("Error during bulk import:"), <<>>, "returned"),
        NoVerdict)

\* bulk-store <data>: JSON.parse is outside any try.
CmdBulkStore(t, connOk, opOk) ==
    Invocation("bulk-store", [NoInput EXCEPT !.text = t],
        IF JSONParseThrows(t) THEN Escaped
        ELSE WithOut(bulkStoreStatements(t, connOk, opOk),
                     <<Out("Statements stored successfully.", 0)>>),
        NoVerdict)

\* export-statements <filter> <format>
CmdExportStatements(f, fmt, connOk, opOk) ==
    Invocation("export-statements", [NoInput EXCEPT !.filter = f, !.format = fmt],
        WithOut(exportStatements(f, fmt, connOk, opOk),
                <<Out("Statements exported in format.", 0)>>),
        NoVerdict)

\* import-statements <filePath>: t is the content of the file.
CmdImportStatements(t) ==
    Invocation("import-statements", [NoInput EXCEPT !.text = t],
        WithOut(importStatements, <<Out("Statements imported from file.", 0)>>),
        NoVerdict)

\* validate <data>: JSON.parse is outside any try; the verdict is dropped.
CmdValidate(t) ==
    Invocation("validate", [NoInput EXCEPT !.text = t],
        IF JSONParseThrows(t) THEN Escaped
        ELSE Effect(collection, FALSE, <<>>, <<>>,
                    <<Out("Statement validation complete.", 0)>>, "returned",
                    validateErrors(t.st)),
        IF JSONParseThrows(t) THEN NoVerdict ELSE validateStatement(t.st))

\* check-profile <profileId> <statement>: JSON.parse is outside any try.
CmdCheckProfile(t) ==
    Invocation("check-profile", [NoInput EXCEPT !.text = t],
        IF JSONParseThrows(t) THEN Escaped
        ELSE Nothing(<<>>, <<Out("Statement checked against the profile.", 0)>>,
                     "returned"),
        NoVerdict)

\* reset-db: the command's prompt, then resetDatabase with its own.
CmdResetDb(a1, a2, connOk, opOk) ==
    IF ~Confirmed(a1, ResetCommandDefault)
    THEN Invocation("reset-db", [NoInput EXCEPT !.answers = <<a1>>],
            Nothing(<<>>, <<Out("Operation cancelled.", 0)>>, "returned"),
            NoVerdict)
    ELSE Invocation("reset-db", [NoInput EXCEPT !.answers = <<a1, a2>>],
            WithOut(resetDatabase(a2, connOk, opOk),
                    <<Out("Database records purged.", 0)>>),
            NoVerdict)

\* lrsStats: getLRSStats returns nothing, the callback prints undefined.
CmdLrsStats(connOk, opOk) ==
    Invocation("lrsStats", NoInput,
        WithOut(getLRSStats(connOk, opOk), <<Out("undefined", 0)>>), NoVerdict)

\* listVerbs: the callback prints what listAllVerbs returned.
CmdListVerbs(connOk, opOk) ==
    LET e == listAllVerbs(connOk, opOk)
    IN Invocation("listVerbs", NoInput,
           WithOut(e, IF e.log = <<>> THEN e.out ELSE <<Out("undefined", 0)>>),
           NoVerdict)

\* interactiveMode(): the statement assembled from the answers.
interactiveMode(a) ==
    [actor |-> "object", name |-> a.actorName, mbox |-> a.actorMbox,
     verb |-> "object", id |-> a.verbId, display |-> "object",
     object |-> "object", authority |-> "absent"]

\* interactive-mode: the callback prints the statement interactiveMode
\* returned.
CmdInteractiveMode(a) ==
    Invocation("interactive-mode", [NoInput EXCEPT !.prompt = a],
        Nothing(<<>>, <<Out("Generated statement:", 0)>>, "returned"),
        NoVerdict)

\* generate-template
CmdGenerateTemplate ==
    Invocation("generate-template", NoInput,
        Nothing(<<>>, <<Out("Generated template:", 0)>>, "returned"),
        NoVerdict)

\* set-statement-authority <statementId> <authority>: the callback prints
\* the same line whatever the handler did.
CmdSetStatementAuthority(sid, authority, connOk, opOk) ==
    Invocation("set-statement-authority",
        [NoInput EXCEPT !.id = sid, !.authority = authority],
        WithOut(setStatementAuthority(sid, authority, connOk, opOk),
                <<Out("Authority set for statement.", 0)>>),
        NoVerdict)

\* register-verb <verb> <definition>
CmdRegisterVerb(connOk, opOk) ==
    Invocation("register-verb", NoInput,
        WithOut(registerNewVerb(connOk, opOk),
                <<Out("Verb registered successfully.", 0)>>),
        NoVerdict)

\* register-activity-type <type> <definition>
CmdRegisterActivityType(connOk, opOk) ==
    Invocation("register-activity-type", NoInput,
        WithOut(registerNewActivityType(connOk, opOk),
                <<Out("Activity type registered successfully.", 0)>>),
        NoVerdict)

\* The commands of the reading handlers: the callback prints what the
\* handler returned.
CmdRead(h, connOk, opOk) ==
    Invocation(h.cmd, NoInput,
        WithOut(readHandler(h, connOk, opOk), <<Out("result", 0)>>),
        NoVerdict)

\* visualizeData <filter>: visualizeData prints the filter.
CmdVisualizeData ==
    Invocation("visualizeData", NoInput,
        Nothing(<<>>, <<Out("Visualization for filter:", 0)>>, "returned"),
        NoVerdict)

\* check-health
CmdCheckHealth(large, connOk, opOk) ==
    Invocation("check-health", NoInput,
        checkDatabaseHealth(large, connOk, opOk), NoVerdict)

\* backup <destinationPath>: the callback prints at once.
CmdBackup(toolOk) ==
    Invocation("backup", NoInput,
        WithOut(backupDatabase(toolOk), <<Out("Database backed up to", 0)>>),
        NoVerdict)

\* restore <backupPath>: dump is the content of the backup.
CmdRestore(dump, toolOk) ==
    Invocation("restore", NoInput,
        WithOut(restoreDatabaseFromBackup(dump, toolOk),
                <<Out("Database restored from", 0)>>),
        NoVerdict)

(***************************************************************************)
(* The main menu, which the module starts when it is loaded.               *)
(***************************************************************************)
\* A menu whose switch leaves the loop for a choice it has no case for.
mainMenuNoLoop(choice, a) ==
    CASE choice = "Interactively generate an xAPI statement" ->
            [exit |-> "alive", again |-> TRUE,
             out |-> <<Out("Generated statement:", 0)>>,
             generated |-> interactiveMode(a)]
      [] choice = "Exit" ->
            [exit |-> "0", again |-> FALSE,
             out |-> <<Out("Exiting the program. Goodbye!", 0)>>,
             generated |-> menu.generated]
      [] OTHER ->
            [exit |-> "0", again |-> FALSE, out |-> <<>>,
             generated |-> menu.generated]

\* mainMenu() after the choice was made: the switch has a case for the
\* first choice and for Exit only; whatever was chosen, unless the process
\* has exited, mainMenu() is called again.
mainMenu(choice, a) ==
    CASE choice = "Interactively generate an xAPI statement" ->
            [exit |-> "alive", again |-> TRUE,
             out |-> <<Out("Generated statement:", 0)>>,
             generated |-> interactiveMode(a)]
      [] choice = "Exit" ->
            [exit |-> "0", again |-> FALSE,
             out |-> <<Out("Exiting the program. Goodbye!", 0)>>,
             generated |-> menu.generated]
      [] OTHER ->
            [exit |-> "alive", again |-> TRUE, out |-> <<>>,
             generated |-> menu.generated]

\* The user selects a choice of the menu (and answers the questions of
\* interactiveMode with a).
MenuSelect(choice, a) ==
    LET m == mainMenu(choice, a)
    IN /\ exit = "alive"
       /\ m.again => menu.shown < MaxMenus
       /\ exit' = m.exit
       /\ stdout' = stdout \o m.out
       /\ menu' = [shown |-> IF m.again THEN menu.shown + 1 ELSE menu.shown,
                   generated |-> m.generated]
       /\ UNCHANGED <<collection, exported, purged, cmd, input, connected,
                      calls, log, outcome, verdict, errors, env, targets>>

\* Processes run one after another, from the empty collection on: each is
\* started with one of the commands that store, read or purge statements,
\* and is ended by the Exit choice of the menu unless it has ended itself.
Next ==
    \/ MenuSelect("Exit", NoPrompt)
    \/ Idle /\ \E t \in StatementTexts, connOk, opOk \in BOOLEAN : CmdCreate(t, connOk, opOk)
    \/ Idle /\ \E f \in FilterTexts, connOk, opOk \in BOOLEAN : CmdQuery(f, connOk, opOk)
    \/ Idle /\ \E t \in FileTexts : CmdBulkImport(t)
    \/ Idle /\ \E t \in BatchTexts, connOk, opOk \in BOOLEAN : CmdBulkStore(t, connOk, opOk)
    \/ Idle /\ \E f \in FilterTexts, fmt \in Formats, connOk, opOk \in BOOLEAN :
          CmdExportStatements(f, fmt, connOk, opOk)
    \/ Idle /\ \E t \in FileTexts : CmdImportStatements(t)
    \/ Idle /\ \E t \in StatementTexts : CmdValidate(t)
    \/ Idle /\ \E t \in StatementTexts : CmdCheckProfile(t)
    \/ Idle /\ \E a1, a2 \in Answers, connOk, opOk \in BOOLEAN : CmdResetDb(a1, a2, connOk, opOk)
    \/ Idle /\ \E connOk, opOk \in BOOLEAN : CmdLrsStats(connOk, opOk)
    \/ Idle /\ \E connOk, opOk \in BOOLEAN : CmdListVerbs(connOk, opOk)

Spec == Init /\ [][Next]_vars

\* One process, started with any command in any state the collection can be
\* in, and the choices its user makes in the menu.
InitProcess ==
    /\ collection \in Collections
    /\ purged \in {[since |-> FALSE, deleted |-> 0]}
                  \cup { [since |-> TRUE, deleted |-> k] :
                           k \in IF collection = <<>> THEN 0..MaxDocs ELSE {} }
    /\ exported = NoFile
    /\ cmd = "none"
    /\ input = NoInput
    /\ connected = FALSE
    /\ calls = <<>>
    /\ log = <<>>
    /\ stdout = <<>>
    /\ outcome = "none"
    /\ verdict = NoVerdict
    /\ errors = <<>>
    /\ env = RequiredSettings
    /\ exit = "none"
    /\ menu = NoMenu
    /\ targets = {}

\* No process was started yet.
Fresh == exit = "none"

NextProcess ==
    \/ Fresh /\ \E v \in Environments : StartWithoutConfig(v)
    \/ Fresh /\ \E t \in StatementTexts, connOk, opOk \in BOOLEAN : CmdCreate(t, connOk, opOk)
    \/ Fresh /\ \E f \in FilterTexts, connOk, opOk \in BOOLEAN : CmdQuery(f, connOk, opOk)
    \/ Fresh /\ \E t \in FileTexts : CmdBulkImport(t)
    \/ Fresh /\ \E t \in BatchTexts, connOk, opOk \in BOOLEAN : CmdBulkStore(t, connOk, opOk)
    \/ Fresh /\ \E f \in FilterTexts, fmt \in Formats, connOk, opOk \in BOOLEAN :
          CmdExportStatements(f, fmt, connOk, opOk)
    \/ Fresh /\ \E t \in FileTexts : CmdImportStatements(t)
    \/ Fresh /\ \E t \in StatementTexts : CmdValidate(t)
    \/ Fresh /\ \E t \in StatementTexts : CmdCheckProfile(t)
    \/ Fresh /\ \E a1, a2 \in Answers, connOk, opOk \in BOOLEAN : CmdResetDb(a1, a2, connOk, opOk)
    \/ Fresh /\ \E connOk, opOk \in BOOLEAN : CmdLrsStats(connOk, opOk)
    \/ Fresh /\ \E connOk, opOk \in BOOLEAN : CmdListVerbs(connOk, opOk)
    \/ Fresh /\ \E sid \in StatementIds, au \in AuthorityArgs, connOk, opOk \in BOOLEAN :
          CmdSetStatementAuthority(sid, au, connOk, opOk)
    \/ Fresh /\ \E connOk, opOk \in BOOLEAN : CmdRegisterVerb(connOk, opOk)
    \/ Fresh /\ \E connOk, opOk \in BOOLEAN : CmdRegisterActivityType(connOk, opOk)
    \/ Fresh /\ \E h \in ReadHandlers, connOk, opOk \in BOOLEAN : CmdRead(h, connOk, opOk)
    \/ Fresh /\ CmdVisualizeData
    \/ Fresh /\ \E large, connOk, opOk \in BOOLEAN : CmdCheckHealth(large, connOk, opOk)
    \/ Fresh /\ \E toolOk \in BOOLEAN : CmdBackup(toolOk)
    \/ Fresh /\ \E dump \in Collections, toolOk \in BOOLEAN : CmdRestore(dump, toolOk)
    \/ Fresh /\ \E a \in PromptAnswers : CmdInteractiveMode(a)
    \/ Fresh /\ CmdGenerateTemplate
    \/ \E i \in 1..Len(MenuChoices), a \in PromptAnswers :
          MenuSelect(MenuChoices[i], a)

SpecProcess == InitProcess /\ [][NextProcess]_vars

\* The validator alone: the validate command given any statement, once.
InitValidator ==
    /\ input \in { [NoInput EXCEPT !.text = t] : t \in AllStatementTexts }
    /\ collection = <<>>
    /\ exported = NoFile
    /\ purged = [since |-> FALSE, deleted |-> 0]
    /\ cmd = "none"
    /\ connected = FALSE
    /\ calls = <<>>
    /\ log = <<>>
    /\ stdout = <<>>
    /\ outcome = "none"
    /\ verdict = NoVerdict
    /\ errors = <<>>
    /\ env = RequiredSettings
    /\ exit = "none"
    /\ menu = NoMenu
    /\ targets = {}

NextValidator == outcome = "none" /\ CmdValidate(input.text)

SpecValidator == InitValidator /\ [][NextValidator]_vars

(***************************************************************************)
(* Properties of the validator, checked under SpecValidator.               *)
(***************************************************************************)
\* validateStatement was applied to the statement of the input.
Validated == cmd = "validate" /\ outcome = "returned"
TopFields == {"actor", "verb", "object"}
IsString(v) == v \notin {"absent", "nonstring"}

\* C1: a statement that lacks actor, verb or object is judged invalid, and
\* one of the returned errors is a "required" error of the root that names a
\* top-level field the statement lacks.
C1_MissingTopLevelRejected ==
    (Validated /\ \E f \in TopFields : input.text.st[f] = "absent")
    => /\ ~verdict.valid
       /\ \E i \in 1..Len(verdict.errors) :
             /\ verdict.errors[i].keyword = "required"
             /\ verdict.errors[i].path = ""
             /\ verdict.errors[i].missing \in TopFields
             /\ input.text.st[verdict.errors[i].missing] = "absent"

\* A statement with a well-formed actor and verb and no object was rejected.
C1_Witness ==
    /\ Validated
    /\ input.text.st.actor = "object" /\ input.text.st.verb = "object"
    /\ IsString(input.text.st.name) /\ IsString(input.text.st.mbox)
    /\ IsString(input.text.st.id) /\ input.text.st.display = "object"
    /\ input.text.st.object = "absent"
    /\ ~verdict.valid
    /\ verdict.errors = <<ErrRequired("", "object")>>

\* actor.name, actor.mbox, verb.id, verb.display and object are all present.
AllPresent(s) ==
    /\ s.name # "absent" /\ s.mbox # "absent"
    /\ s.id # "absent" /\ s.display # "absent"
    /\ s.object # "absent"

\* ... and each has the type the schema gives it.
WellTyped(s) ==
    /\ IsString(s.name) /\ IsString(s.mbox) /\ IsString(s.id)
    /\ s.display = "object" /\ s.object = "object"

\* C2 as stated: a statement in which actor.name, actor.mbox, verb.id,
\* verb.display and object are all present is judged valid.
C2_PresentImpliesValid ==
    (Validated /\ AllPresent(input.text.st)) => verdict.valid

\* C2 amended: a statement in which actor.name, actor.mbox and verb.id are
\* present strings and verb.display and object are present objects is judged
\* valid, whatever other fields it carries.
C2_WellTypedImpliesValid ==
    (Validated /\ WellTyped(input.text.st))
    => verdict.valid /\ verdict.errors = <<>>

\* A well-typed statement with a field the schema does not mention was
\* judged valid.
C2_Witness ==
    /\ Validated
    /\ WellTyped(input.text.st)
    /\ input.text.st.authority = "admin"
    /\ verdict.valid

\* C3: the returned error list holds one descriptor for every constraint the
\* statement violates (none for the children of a missing parent); for
\* {"actor":{"name":"John"}} these are the missing actor.mbox, verb and object.
C3_EveryViolationReported ==
    Validated
    => /\ verdict.errors = Violations(input.text.st)
       /\ (input.text.st = [NoStatement EXCEPT !.actor = "object", !.name = "John"]
           => verdict.errors = <<ErrRequired("", "verb"), ErrRequired("", "object"),
                                 ErrRequired(".actor", "mbox")>>)

(***************************************************************************)
(* Properties of the commands, checked under Spec.                         *)
(***************************************************************************)
Logged(level, cause) ==
    \E i \in 1..Len(log) : log[i].level = level /\ log[i].cause = cause
LoggedNext(level, cause) ==
    \E i \in 1..Len(log') : log'[i].level = level /\ log'[i].cause = cause

\* The create command ends with the violation list of s logged as an error.
RejectedNext(s) ==
    /\ ~HasCall(calls', "insertOne")
    /\ collection' = collection
    /\ \E i \in 1..Len(log') :
          /\ log'[i].level = "error"
          /\ log'[i].cause = "Validation failed"
          /\ log'[i].errs = validateErrors(s)
          /\ log'[i].errs # <<>>

\* The create command ends with s inserted once and success reported.
InsertedNext(s) ==
    /\ CountCalls(calls', "insertOne") = 1
    /\ Len(collection') = Len(collection) + 1
    /\ SubSeq(collection', 1, Len(collection)) = collection
    /\ collection'[Len(collection')].st = s
    /\ log' = <<Log("info", "Record created successfully", "none", <<>>)>>

BulkCommands == {"bulkImport", "bulk-store", "import-statements"}

\* C5: a bulk command given a list inserts exactly the entries that pass
\* validation, with one insertMany, and reports their number; when none
\* passes it reports a failure and does not call insertMany.  (Stated for the
\* runs in which the data store does not fail.)
C5_BulkInsertsValidSubset ==
    [][ (/\ Idle
         /\ cmd' \in BulkCommands
         /\ input'.text.kind = "array"
         /\ outcome' = "returned"
         /\ ~LoggedNext("error", "MongoError"))
        => LET validData == FilterValid(input'.text.items)
           IN IF validData = <<>>
              THEN /\ ~HasCall(calls', "insertMany")
                   /\ collection' = collection
                   /\ \E i \in 1..Len(log') : log'[i].level = "error"
              ELSE /\ CountCalls(calls', "insertMany") = 1
                   /\ collection' = insertMany(collection, validData)
                   /\ log' = <<LogInserted(Len(validData))>> ]_vars

\* C6: on the reset-db path deleteMany is called only if every prompt shown
\* was answered with an explicit yes.
C6_DeleteOnlyOnExplicitYes ==
    (cmd = "reset-db" /\ HasCall(calls, "deleteMany"))
    => \A i \in 1..Len(input.answers) : input.answers[i] = "y"

\* The statements of the documents of a collection, in order.
StatementsOf(coll) == [i \in 1..Len(coll) |-> coll[i].st]

\* C7: export-statements of the whole collection to JSON writes its N
\* records to exported_statements.json, and import-statements of a file of
\* valid records stores records with the same actor, verb and object.
\* (Stated for the runs in which the data store does not fail.)
C7_ExportImportRoundTrip ==
    /\ (/\ cmd = "export-statements"
        /\ input.filter = FilterAll /\ input.format = "json"
        /\ outcome = "returned" /\ ~Logged("error", "MongoError"))
       => /\ exported.exists
          /\ exported.items = StatementsOf(collection)
    /\ (/\ cmd = "import-statements"
        /\ input.text.kind = "array"
        /\ FilterValid(input.text.items) = input.text.items
        /\ outcome = "returned" /\ ~Logged("error", "MongoError"))
       => LET l == input.text.items
              n == Len(collection)
          IN /\ n >= Len(l)
             /\ SubSeq(StatementsOf(collection), n - Len(l) + 1, n) = l

\* lrsStats printed this count.
Counted(n) ==
    \E i \in 1..Len(stdout) : stdout[i] = Out("Total statements in LRS:", n)

\* C8: when a delete-all was the last write to the collection, the count
\* lrsStats prints is zero.
C8_CountAfterResetIsZero ==
    (cmd = "lrsStats" /\ purged.since)
    => \A i \in 1..Len(stdout) :
          stdout[i].msg = "Total statements in LRS:" => stdout[i].n = 0

\* lrsStats counted after a reset that had deleted documents.
C8_Witness ==
    /\ cmd = "lrsStats"
    /\ purged.since /\ purged.deleted >= 1
    /\ Counted(0)

\* C9: when a handler that connected returns, the connection is closed.
C9_HandlersCloseConnection ==
    (outcome = "returned" /\ HasCall(calls, "connect")) => ~connected

JsonCommands ==
    {"create", "query", "bulk-store", "validate", "check-profile",
     "export-statements"}
WriteCalls == {"insertOne", "insertMany", "deleteMany"}

\* C10: a command given a malformed JSON argument fails with a logged error
\* and no write, and the parse error does not escape the handler.  (Stated
\* for the runs in which the connection is established.)
C10_MalformedJsonCaught ==
    (/\ cmd \in JsonCommands
     /\ (input.text.kind = "malformed" \/ input.filter = FilterMalformed)
     /\ outcome # "exit1")
    => /\ outcome = "returned"
       /\ Logged("error", "SyntaxError")
       /\ \A op \in WriteCalls : ~HasCall(calls, op)

(***************************************************************************)
(* Properties of one process, checked under SpecProcess.                   *)
(***************************************************************************)
LoggedMsg(level, msg) ==
    \E i \in 1..Len(log) : log[i].level = level /\ log[i].msg = msg
Printed(msg) == \E i \in 1..Len(stdout) : stdout[i].msg = msg
SettingsPresent == RequiredSettings \subseteq env
ConfigErrorLogged ==
    LoggedMsg("error",
        "Environment variables MONGO_URI, DB_NAME, or COLLECTION_NAME are not set")
ConnectErrorLogged == LoggedMsg("error", "Could not connect to MongoDB:")

RoundTrips == Cardinality({ i \in 1..Len(calls) : calls[i] \in CollectionOps })

\* C13: a process started with a command other than interactive-mode runs
\* that command with at most one round trip to the data store and has then
\* exited, and it has not displayed the menu.
C13_CommandExitsWithoutMenu ==
    cmd \notin {"none", "interactive-mode"}
    => /\ RoundTrips <= 1
       /\ exit \in {"0", "1"}
       /\ menu.shown = 0

Goodbye == Out("Exiting the program. Goodbye!", 0)

SameRecord(d, e) ==
    /\ d.id = e.id
    /\ d.st.actor = e.st.actor /\ d.st.name = e.st.name /\ d.st.mbox = e.st.mbox
    /\ d.st.verb = e.st.verb /\ d.st.id = e.st.id
    /\ d.st.display = e.st.display
    /\ d.st.object = e.st.object

\* The step is a reset-db in which no prompt was declined and deleteMany
\* was called.
ConfirmedResetNext ==
    /\ cmd' = "reset-db"
    /\ Len(input'.answers) = 2
    /\ input'.answers[1] = "y" /\ input'.answers[2] # "n"
    /\ HasCall(calls', "deleteMany")

\* C15: a step removes documents only if it is a confirmed reset-db;
\* every other step keeps every document where it is, with its actor, verb
\* and object; a step changes a kept document only if it is a
\* set-statement-authority, the document is the one with the id given, and
\* the change is that its authority is the one given.
C15_StoredRecordsStay ==
    [][ IF Len(collection') < Len(collection)
        THEN ConfirmedResetNext
        ELSE \A i \in 1..Len(collection) :
                /\ SameRecord(collection'[i], collection[i])
                /\ collection'[i] # collection[i]
                   => /\ Fresh /\ cmd' = "set-statement-authority"
                      /\ input'.id.ok /\ input'.id.id = collection[i].id
                      /\ collection'[i] =
                            [collection[i] EXCEPT !.st.authority = input'.authority]
      ]_vars

\* set-statement-authority with the id of the first of two stored records
\* has set the authority of that record alone.
C15_Witness ==
    /\ cmd = "set-statement-authority"
    /\ input.id = [ok |-> TRUE, id |-> 1] /\ input.authority = "admin"
    /\ HasCall(calls, "updateOne") /\ log = <<>>
    /\ Len(collection) = 2
    /\ collection[1].st.authority = "admin"
    /\ collection[2].st.authority = "absent"

C17_NoMatchIsSuccess ==
    [][ (/\ Fresh /\ cmd' = "set-statement-authority"
         /\ input'.id.ok
         /\ \A i \in 1..Len(collection) : collection[i].id # input'.id.id
         /\ HasCall(calls', "updateOne")
         /\ ~LoggedNext("error", "MongoError"))
        => /\ log' = <<>>
           /\ outcome' = "returned"
           /\ stdout' = <<Out("Authority set for statement.", 0)>>
           /\ collection' = collection ]_vars

\* set-statement-authority with an id no record of the collection has.
C17_Witness ==
    /\ cmd = "set-statement-authority"
    /\ input.id.ok /\ input.id.id = Len(collection) + 1
    /\ Len(collection) >= 1
    /\ HasCall(calls, "updateOne")
    /\ log = <<>>
    /\ Printed("Authority set for statement.")

====
